---- MODULE Spec2Model ----
(***************************************************************************)
(* Census manager (service/census/censusmanager.go): the namespace         *)
(* registry (MkTrees, Signatures, AddNamespace), the authorization gate    *)
(* (checkAuth), the protocol dispatcher (Handler) and the transport        *)
(* adapter (HTTPhandler).                                                  *)
(*                                                                         *)
(* The merkle tree (package tree) and the signature verifier (package      *)
(* signature) are imported packages; they are modelled from the contract   *)
(* of section 6 of the specification (operators Tree* and VerifyOutcomes). *)
(* The response's TimeStamp and the service's own signature over the       *)
(* response are not part of the state.                                     *)
(*                                                                         *)
(* The strings rootHash, proofData, siblings and signatures are sequences, *)
(* so that len() is Len(); other strings are TLA+ strings and "" is the    *)
(* empty Go string.                                                        *)
(***************************************************************************)
EXTENDS Integers, Sequences, FiniteSets, TLC

VARIABLES MkTrees, Signatures, reply, procs

vars == <<MkTrees, Signatures, reply, procs>>

----------------------------------------------------------------------------
(* Bounds of the model *)

\* number of distinct well-formed claims that requests may carry
NumClaims == 2

\* request timestamps range up to authTimeWindow + Skew seconds around the clock
Skew == 1

----------------------------------------------------------------------------
(* Program constants *)

authTimeWindow == 10

\* int32 arithmetic of checkAuth: sums and differences wrap modulo 2^32 into
\* -2^31 .. 2^31-1 (b >= 0 in both operators)
Int32Max == 2147483647

Add32(a, b) ==
    IF a > Int32Max - b
    THEN (a - Int32Max) + (b - Int32Max) - 2
    ELSE a + b

Sub32(a, b) ==
    IF a < (0 - Int32Max - 1) + b
    THEN (a + Int32Max) + (Int32Max - b) + 2
    ELSE a - b

\* a + d for d of either sign
Shift32(a, d) == IF d >= 0 THEN Add32(a, d) ELSE Sub32(a, 0 - d)

----------------------------------------------------------------------------
(* Input domains *)

ClaimNames == <<"a", "b", "c", "d">>

Claims == {ClaimNames[i] : i \in 1..NumClaims}

\* the claimData of a request: a claim, or the empty string
ClaimInputs == Claims \cup {""}

CensusIds == {"c1", "c2"}

PubKeys == {"", "k"}

KnownMethods == {"getRoot", "addClaim", "genProof", "getIdx", "dump", "checkProof"}

Methods == KnownMethods \cup {"foo"}

ViewMethods == {"genProof", "getIdx", "dump", "checkProof"}

EmptyStr == << >>

EmptyMap == [k \in {} |-> 0]

MapPut(m, k, v) == [x \in (DOMAIN m) \cup {k} |-> IF x = k THEN v ELSE m[x]]

ToSet(s) == {s[i] : i \in 1..Len(s)}

IsPrefix(s, t) == Len(s) <= Len(t) /\ SubSeq(t, 1, Len(s)) = s

----------------------------------------------------------------------------
(* Verifiable tree: contract of package tree.  A tree is the sequence of   *)
(* the claims inserted so far, in insertion order; each prefix is one      *)
(* historical version of the tree.                                         *)

TreeInit(name) == << >>

\* the root commits to the set of stored claims; an encoded root is never
\* shorter than two characters
TreeGetRoot(t) == <<"0x", ToSet(t)>>

\* empty data is malformed; a stored claim cannot be inserted again
TreeAddClaim(t, data) ==
    IF data = ""
    THEN [tree |-> t, err |-> "claim data not valid"]
    ELSE IF data \in ToSet(t)
    THEN [tree |-> t, err |-> "duplicate claim"]
    ELSE [tree |-> Append(t, data), err |-> ""]

HistoricalRoots(t) == {TreeGetRoot(SubSeq(t, 1, i)) : i \in 0..Len(t)}

TreeSnapshot(t, root) ==
    IF root \in HistoricalRoots(t)
    THEN [tree |-> SubSeq(t, 1, CHOOSE i \in 0..Len(t) : TreeGetRoot(SubSeq(t, 1, i)) = root),
          err |-> ""]
    ELSE [tree |-> << >>, err |-> "invalid root"]

\* the siblings of a claim commit to the rest of the tree
TreeGenProof(t, data) ==
    IF data \in ToSet(t)
    THEN [siblings |-> <<"p", ToSet(t) \ {data}>>, err |-> ""]
    ELSE [siblings |-> EmptyStr, err |-> "claim not found"]

TreeGetIndex(t, data) ==
    IF data \in ToSet(t)
    THEN [idx |-> CHOOSE i \in 1..Len(t) : t[i] = data, err |-> ""]
    ELSE [idx |-> 0, err |-> "claim not found"]

\* fault: the walk over the storage fails
TreeDump(t, fault) ==
    IF fault
    THEN [values |-> << >>, err |-> "storage error"]
    ELSE [values |-> t, err |-> ""]

WellFormedProof(proof) == Len(proof) = 2 /\ proof[1] = "p"

TreeCheckProof(t, data, proof) ==
    IF ~WellFormedProof(proof)
    THEN [valid |-> FALSE, err |-> "malformed proof"]
    ELSE [valid |-> (data \notin proof[2] /\ proof[2] \cup {data} = ToSet(t)), err |-> ""]

----------------------------------------------------------------------------
(* Registry *)

AddNamespace(trees, sigs, name, pubKey) ==
    [trees |-> MapPut(trees, name, TreeInit(name)),
     sigs  |-> MapPut(sigs, name, pubKey)]

----------------------------------------------------------------------------
(* Signature capability: contract verify(message, signature, publicKey) -> *)
(* (valid, error?).  A signature is <<key, message>>; anything of another  *)
(* shape cannot be decoded, and the contract leaves the boolean returned   *)
(* alongside an error open.                                                *)

Message == "m"

SignOf(key, message) == <<key, message>>

VerifyOutcomes(message, signed, pubKey) ==
    IF Len(signed) # 2
    THEN {[v |-> b, err |-> "cannot decode signature"] : b \in BOOLEAN}
    ELSE {[v |-> (signed = SignOf(pubKey, message)), err |-> ""]}

----------------------------------------------------------------------------
(* Auth gate.  now is the value read from the clock, out the verifier's    *)
(* answer for (message, signed, pubKey).                                   *)

\* whether checkAuth calls the verifier
checkAuthVerifies(now, timestamp, pubKey) ==
    /\ pubKey # ""
    /\ timestamp < Add32(now, authTimeWindow)
    /\ timestamp > Sub32(now, authTimeWindow)

\* variant of checkAuth: the time window is tested before the key
checkAuth_WindowFirst(now, timestamp, pubKey, out) ==
    IF timestamp < Add32(now, authTimeWindow)
       /\ timestamp > Sub32(now, authTimeWindow)
    THEN IF pubKey = "" THEN TRUE ELSE out.v
    ELSE FALSE

checkAuth(now, timestamp, pubKey, out) ==
    IF pubKey = ""
    THEN TRUE
    ELSE LET currentTime == now IN
         IF timestamp < Add32(currentTime, authTimeWindow)
            /\ timestamp > Sub32(currentTime, authTimeWindow)
         THEN out.v
         ELSE FALSE

----------------------------------------------------------------------------
(* Protocol dispatcher.  Every Handle* operator returns                    *)
(*   resp  : the CensusResponse                                            *)
(*   trees : MkTrees after the call                                        *)
(*   calls : the tree operations invoked, in order                         *)
(*   err   : the value of the local variable err when the handler returns  *)

NewResp ==
    [Ok |-> TRUE, Error |-> "", Root |-> EmptyStr, Siblings |-> EmptyStr,
     Idx |-> 0, ClaimsData |-> << >>, ValidProof |-> FALSE]

Fail(resp, text) == [resp EXCEPT !.Ok = FALSE, !.Error = text]

censusFound(trees, censusId) == censusId \in DOMAIN trees

\* variant of NotFound: the response is left ok=true
NotFound_OkLeft(trees) ==
    [resp |-> [NewResp EXCEPT !.Error = "censusId not valid or not found"],
     trees |-> trees, calls |-> << >>, err |-> ""]

NotFound(trees) ==
    [resp |-> Fail(NewResp, "censusId not valid or not found"),
     trees |-> trees, calls |-> << >>, err |-> ""]

\* variant of HandleGetRoot: the request's rootHash selects the view
HandleGetRoot_Snapshot(trees, r) ==
    LET s == TreeSnapshot(trees[r.CensusID], r.RootHash) IN
    IF Len(r.RootHash) > 1
    THEN [resp  |-> IF s.err # "" THEN Fail(NewResp, "invalid root hash")
                    ELSE [NewResp EXCEPT !.Root = TreeGetRoot(s.tree)],
          trees |-> trees, calls |-> <<"Snapshot", "GetRoot">>, err |-> ""]
    ELSE [resp |-> [NewResp EXCEPT !.Root = TreeGetRoot(trees[r.CensusID])],
          trees |-> trees, calls |-> <<"GetRoot">>, err |-> ""]

HandleGetRoot(trees, r) ==
    [resp |-> [NewResp EXCEPT !.Root = TreeGetRoot(trees[r.CensusID])],
     trees |-> trees, calls |-> <<"GetRoot">>, err |-> ""]

\* variant of HandleAddClaim: the claim is inserted before isAuth is tested
HandleAddClaim_InsertFirst(trees, r, isAuth) ==
    LET a == TreeAddClaim(trees[r.CensusID], r.ClaimData) IN
    IF isAuth
    THEN [resp  |-> IF a.err # "" THEN Fail(NewResp, a.err) ELSE NewResp,
          trees |-> [trees EXCEPT ![r.CensusID] = a.tree],
          calls |-> <<"AddClaim">>, err |-> a.err]
    ELSE [resp |-> Fail(NewResp, "invalid authentication"),
          trees |-> [trees EXCEPT ![r.CensusID] = a.tree],
          calls |-> <<"AddClaim">>, err |-> ""]

\* variant of HandleAddClaim: the error of the insertion is not reported
HandleAddClaim_ErrIgnored(trees, r, isAuth) ==
    IF isAuth
    THEN LET a == TreeAddClaim(trees[r.CensusID], r.ClaimData) IN
         [resp  |-> NewResp,
          trees |-> [trees EXCEPT ![r.CensusID] = a.tree],
          calls |-> <<"AddClaim">>, err |-> a.err]
    ELSE [resp |-> Fail(NewResp, "invalid authentication"),
          trees |-> trees, calls |-> << >>, err |-> ""]

HandleAddClaim(trees, r, isAuth) ==
    IF isAuth
    THEN LET a == TreeAddClaim(trees[r.CensusID], r.ClaimData) IN
         [resp  |-> IF a.err # "" THEN Fail(NewResp, a.err) ELSE NewResp,
          trees |-> [trees EXCEPT ![r.CensusID] = a.tree],
          calls |-> <<"AddClaim">>, err |-> a.err]
    ELSE [resp |-> Fail(NewResp, "invalid authentication"),
          trees |-> trees, calls |-> << >>, err |-> ""]

\* variant of SelectView: the root is validated but the live tree is served
SelectView_Live(tree, rootHash) ==
    IF Len(rootHash) > 1
    THEN LET s == TreeSnapshot(tree, rootHash) IN
         [tree |-> tree, err |-> s.err, calls |-> <<"Snapshot">>]
    ELSE [tree |-> tree, err |-> "", calls |-> << >>]

\* the view a request with this rootHash is served from
SelectView(tree, rootHash) ==
    IF Len(rootHash) > 1
    THEN LET s == TreeSnapshot(tree, rootHash) IN
         [tree |-> s.tree, err |-> s.err, calls |-> <<"Snapshot">>]
    ELSE [tree |-> tree, err |-> "", calls |-> << >>]

HandleGenProof(trees, t, r, calls) ==
    LET g == TreeGenProof(t, r.ClaimData) IN
    [resp  |-> IF g.err # ""
               THEN Fail([NewResp EXCEPT !.Siblings = g.siblings], g.err)
               ELSE [NewResp EXCEPT !.Siblings = g.siblings],
     trees |-> trees, calls |-> Append(calls, "GenProof"), err |-> g.err]

HandleGetIdx(trees, t, r, calls) ==
    LET g == TreeGetIndex(t, r.ClaimData) IN
    [resp  |-> [NewResp EXCEPT !.Idx = g.idx],
     trees |-> trees, calls |-> Append(calls, "GetIndex"), err |-> g.err]

\* variant of HandleDump: the authorization flag is not consulted
HandleDump_NoAuth(trees, t, r, isAuth, fault, calls) ==
    LET d == TreeDump(t, fault) IN
    [resp  |-> IF d.err # ""
               THEN Fail(NewResp, d.err)
               ELSE [NewResp EXCEPT !.ClaimsData = d.values],
     trees |-> trees, calls |-> Append(calls, "Dump"), err |-> d.err]

HandleDump(trees, t, r, isAuth, fault, calls) ==
    IF ~isAuth
    THEN [resp |-> Fail(NewResp, "invalid authentication"),
          trees |-> trees, calls |-> calls, err |-> ""]
    ELSE LET d == TreeDump(t, fault) IN
         [resp  |-> IF d.err # ""
                    THEN Fail(NewResp, d.err)
                    ELSE [NewResp EXCEPT !.ClaimsData = d.values],
          trees |-> trees, calls |-> Append(calls, "Dump"), err |-> d.err]

\* variant of HandleCheckProof: a proof that does not verify is an error
HandleCheckProof_InvalidIsError(trees, t, r, calls) ==
    IF Len(r.ProofData) < 1
    THEN [resp |-> Fail(NewResp, "proofData not provided"),
          trees |-> trees, calls |-> calls, err |-> ""]
    ELSE LET c == TreeCheckProof(t, r.ClaimData, r.ProofData) IN
         [resp  |-> IF c.err # "" \/ ~c.valid
                    THEN Fail(NewResp, IF c.err # "" THEN c.err ELSE "invalid proof")
                    ELSE [NewResp EXCEPT !.ValidProof = TRUE],
          trees |-> trees, calls |-> Append(calls, "CheckProof"), err |-> c.err]

HandleCheckProof(trees, t, r, calls) ==
    IF Len(r.ProofData) < 1
    THEN [resp |-> Fail(NewResp, "proofData not provided"),
          trees |-> trees, calls |-> calls, err |-> ""]
    ELSE LET c == TreeCheckProof(t, r.ClaimData, r.ProofData) IN
         [resp  |-> IF c.err # ""
                    THEN Fail(NewResp, c.err)
                    ELSE [NewResp EXCEPT !.ValidProof = c.valid],
          trees |-> trees, calls |-> Append(calls, "CheckProof"), err |-> c.err]

\* variant of Handler: a method that is not known is rejected
Handler_RejectUnknown(trees, r, isAuth, fault) ==
    IF ~censusFound(trees, r.CensusID) THEN NotFound(trees)
    ELSE IF r.Method = "getRoot" THEN HandleGetRoot(trees, r)
    ELSE IF r.Method = "addClaim" THEN HandleAddClaim(trees, r, isAuth)
    ELSE LET view == SelectView(trees[r.CensusID], r.RootHash) IN
         IF view.err # ""
         THEN [resp |-> Fail(NewResp, "invalid root hash"),
               trees |-> trees, calls |-> view.calls, err |-> view.err]
         ELSE IF r.Method = "genProof" THEN HandleGenProof(trees, view.tree, r, view.calls)
         ELSE IF r.Method = "getIdx" THEN HandleGetIdx(trees, view.tree, r, view.calls)
         ELSE IF r.Method = "dump"
              THEN HandleDump(trees, view.tree, r, isAuth, fault, view.calls)
         ELSE IF r.Method = "checkProof"
              THEN HandleCheckProof(trees, view.tree, r, view.calls)
         ELSE [resp |-> Fail(NewResp, "method not supported"),
               trees |-> trees, calls |-> view.calls, err |-> ""]

Handler(trees, r, isAuth, fault) ==
    IF ~censusFound(trees, r.CensusID) THEN NotFound(trees)
    ELSE IF r.Method = "getRoot" THEN HandleGetRoot(trees, r)
    ELSE IF r.Method = "addClaim" THEN HandleAddClaim(trees, r, isAuth)
    ELSE LET view == SelectView(trees[r.CensusID], r.RootHash) IN
         IF view.err # ""
         THEN [resp |-> Fail(NewResp, "invalid root hash"),
               trees |-> trees, calls |-> view.calls, err |-> view.err]
         ELSE IF r.Method = "genProof" THEN HandleGenProof(trees, view.tree, r, view.calls)
         ELSE IF r.Method = "getIdx" THEN HandleGetIdx(trees, view.tree, r, view.calls)
         ELSE IF r.Method = "dump"
              THEN HandleDump(trees, view.tree, r, isAuth, fault, view.calls)
         ELSE IF r.Method = "checkProof"
              THEN HandleCheckProof(trees, view.tree, r, view.calls)
         ELSE [resp |-> NewResp, trees |-> trees, calls |-> view.calls, err |-> ""]

----------------------------------------------------------------------------
(* Transport adapter.  body.kind is "nil" (no body), "garbage" (JSON that  *)
(* does not decode) or "msg", a CensusRequestMessage [ID, Request,         *)
(* Signature].  The service's signer is taken to succeed.                  *)

HttpError(trees, code, text) ==
    [status |-> code, text |-> text, handled |-> FALSE, trees |-> trees]

checkRequest(body) == body.kind # "nil"

HTTPhandler(trees, body, fault) ==
    IF ~checkRequest(body) THEN HttpError(trees, 400, "Please send a request body")
    ELSE IF body.kind = "garbage" THEN HttpError(trees, 400, "cannot decode JSON")
    ELSE IF body.Request.Method = "" THEN HttpError(trees, 400, "method must be specified")
    ELSE LET h == Handler(trees, body.Request, TRUE, fault) IN
         [status |-> 200, text |-> "", handled |-> TRUE, trees |-> h.trees,
          resp |-> h.resp, calls |-> h.calls, err |-> h.err,
          ID |-> body.ID, Request |-> body.ID, Signature |-> "signed"]

----------------------------------------------------------------------------
(* Inputs of the operations *)

\* a well-formed root that no tree ever had
BadRoot == <<"0x", {"?"}>>

\* the trees a request on census c can refer to: its own, if registered
TreesOf(trees, c) == IF c \in DOMAIN trees THEN {trees[c]} ELSE {}

\* empty, one character, unknown, and every root the target tree had
RootInputs(trees, c) ==
    {EmptyStr, <<"0x">>, BadRoot}
        \cup UNION {HistoricalRoots(t) : t \in TreesOf(trees, c)}

\* empty, malformed, and every proof over part of the target tree
ProofInputs(trees, c) ==
    {EmptyStr, <<"zz">>}
        \cup UNION {{<<"p", S>> : S \in (SUBSET ToSet(t)) \ {ToSet(t)}} :
                        t \in TreesOf(trees, c)}

\* a field that the method never reads is left empty or given one value
RootInputsFor(trees, c, m) ==
    IF m = "addClaim" THEN {EmptyStr, BadRoot} ELSE RootInputs(trees, c)

ProofInputsFor(trees, c, m) ==
    IF m = "checkProof" THEN ProofInputs(trees, c) ELSE {EmptyStr, <<"zz">>}

Requests(trees, methods) ==
    UNION {[Method : {m}, CensusID : {c}, ClaimData : ClaimInputs,
            RootHash : RootInputsFor(trees, c, m),
            ProofData : ProofInputsFor(trees, c, m)] :
               c \in CensusIds, m \in methods}

\* only Dump consults the storage fault
FaultInputs(r) == IF r.Method = "dump" THEN BOOLEAN ELSE {FALSE}

Bodies(trees) ==
    {[kind |-> "nil"], [kind |-> "garbage"]}
        \cup {[kind |-> "msg", ID |-> "id1", Request |-> r, Signature |-> s] :
                  r \in Requests(trees, Methods \cup {""}),
                  s \in {EmptyStr, SignOf("k", Message)}}

NowInputs == {1000, Int32Max - 5}

SkewInputs == (0 - (authTimeWindow + Skew)) .. (authTimeWindow + Skew)

SignedInputs == {SignOf("k", Message), SignOf("x", Message), <<"zz">>}

MessageInputs == {Message, "n"}

----------------------------------------------------------------------------
(* State machine.  reply holds the outcome of the operation in progress    *)
(* until its caller takes it.                                              *)

Idle == [kind |-> "idle"]

\* the goroutines of the concurrent specification, and one that is not running
Procs == {"g1", "g2"}

IdleProc == [pc |-> "idle"]

Init ==
    /\ MkTrees = EmptyMap
    /\ Signatures = EmptyMap
    /\ reply = Idle
    /\ procs = [p \in Procs |-> IdleProc]

DoAddNamespace ==
    /\ reply = Idle
    /\ \E name \in CensusIds, pubKey \in PubKeys :
         LET a == AddNamespace(MkTrees, Signatures, name, pubKey) IN
         /\ MkTrees' = a.trees
         /\ Signatures' = a.sigs
         /\ reply' = [kind |-> "AddNamespace", name |-> name, pubKey |-> pubKey]
         /\ UNCHANGED procs

DoHandler ==
    /\ reply = Idle
    /\ \E r \in Requests(MkTrees, Methods), isAuth \in BOOLEAN :
         \E fault \in FaultInputs(r) :
           LET h == Handler(MkTrees, r, isAuth, fault) IN
           /\ MkTrees' = h.trees
           /\ reply' = [kind |-> "Handler", req |-> r, isAuth |-> isAuth,
                        fault |-> fault, resp |-> h.resp, calls |-> h.calls,
                        err |-> h.err]
           /\ UNCHANGED <<Signatures, procs>>

DoHTTP ==
    /\ reply = Idle
    /\ \E body \in Bodies(MkTrees) :
         \E fault \in (IF body.kind = "msg" THEN FaultInputs(body.Request) ELSE {FALSE}) :
           LET h == HTTPhandler(MkTrees, body, fault) IN
           /\ MkTrees' = h.trees
           /\ reply' = [kind |-> "HTTP", body |-> body, fault |-> fault, out |-> h]
           /\ UNCHANGED <<Signatures, procs>>

DoCheckAuth ==
    /\ reply = Idle
    /\ \E now \in NowInputs, d \in SkewInputs, pubKey \in PubKeys,
          signed \in SignedInputs, message \in MessageInputs :
         \E out \in VerifyOutcomes(message, signed, pubKey) :
           /\ reply' = [kind |-> "checkAuth", now |-> now, timestamp |-> Shift32(now, d),
                        signed |-> signed, pubKey |-> pubKey, message |-> message,
                        verify |-> out,
                        verified |-> checkAuthVerifies(now, Shift32(now, d), pubKey),
                        result |-> checkAuth(now, Shift32(now, d), pubKey, out)]
           /\ UNCHANGED <<MkTrees, Signatures, procs>>

Return ==
    /\ reply # Idle
    /\ reply' = Idle
    /\ UNCHANGED <<MkTrees, Signatures, procs>>

Next == DoAddNamespace \/ DoHandler \/ DoHTTP \/ DoCheckAuth \/ Return

Spec == Init /\ [][Next]_vars

----------------------------------------------------------------------------
(* Concurrent goroutines.  The code takes no lock: AddNamespace and        *)
(* Handler read and write the package-level maps directly, so their memory *)
(* accesses interleave.  Each goroutine of Procs runs one call at a time;  *)
(* pc is its position in the source.                                       *)
(*   AddNamespace: line 28 reads len(MkTrees), line 29 replaces the map,   *)
(*     lines 31 and 32 do the same for Signatures, line 37 stores the new  *)
(*     tree and line 38 the key.                                           *)
(*   Handler: lines 124-129 iterate over MkTrees; the later lines index    *)
(*     MkTrees again; line 144 calls AddClaim on the tree it read.         *)
(* An iteration over a map that another goroutine writes meanwhile, and    *)
(* two AddClaim calls on one tree at once, are data races: their outcome   *)
(* is a choice among the results the runtime can produce.                  *)

ConcMethods == {"getRoot", "addClaim"}

ConcRequests ==
    [CensusID : CensusIds, Method : ConcMethods, ClaimData : Claims,
     RootHash : {EmptyStr}, ProofData : {EmptyStr}]

Running == \A p \in Procs : procs[p].pc \notin {"fatal", "panic"}

\* a write to MkTrees by q reaches every iteration in progress
MapWritten(ps, q) ==
    [p \in Procs |->
        IF p # q /\ ps[p].pc = "lookup" THEN [ps[p] EXCEPT !.raced = TRUE]
        ELSE ps[p]]

\* after MkTrees[name] is replaced, a running AddClaim holds the old tree
TreeReplaced(ps, q, names) ==
    [p \in Procs |->
        IF p # q /\ ps[p].pc = "adding" /\ ps[p].req.CensusID \in names
        THEN [ps[p] EXCEPT !.orphan = TRUE]
        ELSE ps[p]]

NsBegin(p) ==
    /\ Running /\ procs[p].pc = "idle"
    /\ \E name \in CensusIds, pubKey \in PubKeys :
         procs' = [procs EXCEPT ![p] = [pc |-> "ns29", name |-> name,
                                        pubKey |-> pubKey,
                                        empty |-> DOMAIN MkTrees = {}]]
    /\ UNCHANGED <<MkTrees, Signatures, reply>>

NsMakeTrees(p) ==
    /\ Running /\ procs[p].pc = "ns29"
    /\ IF procs[p].empty
       THEN /\ MkTrees' = EmptyMap
            /\ procs' = [TreeReplaced(MapWritten(procs, p), p, DOMAIN MkTrees)
                             EXCEPT ![p].pc = "ns31"]
       ELSE /\ procs' = [procs EXCEPT ![p].pc = "ns31"]
            /\ UNCHANGED MkTrees
    /\ UNCHANGED <<Signatures, reply>>

NsLenSignatures(p) ==
    /\ Running /\ procs[p].pc = "ns31"
    /\ procs' = [procs EXCEPT ![p].pc = "ns32",
                              ![p].empty = (DOMAIN Signatures = {})]
    /\ UNCHANGED <<MkTrees, Signatures, reply>>

NsMakeSignatures(p) ==
    /\ Running /\ procs[p].pc = "ns32"
    /\ Signatures' = IF procs[p].empty THEN EmptyMap ELSE Signatures
    /\ procs' = [procs EXCEPT ![p].pc = "ns37"]
    /\ UNCHANGED <<MkTrees, reply>>

NsPutTree(p) ==
    /\ Running /\ procs[p].pc = "ns37"
    /\ MkTrees' = MapPut(MkTrees, procs[p].name, TreeInit(procs[p].name))
    /\ procs' = [TreeReplaced(MapWritten(procs, p), p, {procs[p].name})
                     EXCEPT ![p].pc = "ns38"]
    /\ UNCHANGED <<Signatures, reply>>

NsPutSignature(p) ==
    /\ Running /\ procs[p].pc = "ns38"
    /\ Signatures' = MapPut(Signatures, procs[p].name, procs[p].pubKey)
    /\ procs' = [procs EXCEPT ![p] = IdleProc]
    /\ UNCHANGED <<MkTrees, reply>>

HBegin(p) ==
    /\ Running /\ procs[p].pc = "idle"
    /\ \E r \in ConcRequests :
         procs' = [procs EXCEPT ![p] = [pc |-> "lookup", req |-> r,
                                        isAuth |-> TRUE,
                                        seen |-> DOMAIN MkTrees,
                                        raced |-> FALSE]]
    /\ UNCHANGED <<MkTrees, Signatures, reply>>

\* the results of the iteration of lines 124-129
LookupOutcomes(pr, trees) ==
    IF pr.raced
    THEN {"fatal"} \cup {IF censusFound([c \in d |-> 0], pr.req.CensusID)
                         THEN "found" ELSE "missing" :
                              d \in {pr.seen, DOMAIN trees}}
    ELSE {IF censusFound(trees, pr.req.CensusID) THEN "found" ELSE "missing"}

HLookup(p) ==
    /\ Running /\ procs[p].pc = "lookup"
    /\ \E o \in LookupOutcomes(procs[p], MkTrees) :
         procs' = [procs EXCEPT ![p] =
                     IF o = "missing"
                     THEN [pc |-> "done", req |-> procs[p].req,
                           resp |-> NotFound(MkTrees).resp]
                     ELSE [pc |-> o, req |-> procs[p].req,
                           isAuth |-> procs[p].isAuth]]
    /\ UNCHANGED <<MkTrees, Signatures, reply>>

\* lines 136-226 but the AddClaim call: MkTrees[r.CensusID] is nil if the
\* entry has gone since the iteration
HServe(p) ==
    /\ Running /\ procs[p].pc = "found"
    /\ ~(procs[p].req.Method = "addClaim" /\ procs[p].isAuth)
    /\ procs' = [procs EXCEPT ![p] =
                   IF procs[p].req.CensusID \notin DOMAIN MkTrees
                   THEN [pc |-> "panic", req |-> procs[p].req]
                   ELSE [pc |-> "done", req |-> procs[p].req,
                         resp |-> Handler(MkTrees, procs[p].req,
                                          procs[p].isAuth, FALSE).resp]]
    /\ UNCHANGED <<MkTrees, Signatures, reply>>

HAddBegin(p) ==
    /\ Running /\ procs[p].pc = "found"
    /\ procs[p].req.Method = "addClaim" /\ procs[p].isAuth
    /\ procs' = [procs EXCEPT ![p] =
                   IF procs[p].req.CensusID \notin DOMAIN MkTrees
                   THEN [pc |-> "panic", req |-> procs[p].req]
                   ELSE [pc |-> "adding", req |-> procs[p].req,
                         read |-> MkTrees[procs[p].req.CensusID],
                         orphan |-> FALSE]]
    /\ UNCHANGED <<MkTrees, Signatures, reply>>

\* the trees an AddClaim that began on tree `read` can have inserted into
AddClaimBases(pr, trees) ==
    IF pr.orphan THEN {pr.read} ELSE {pr.read, trees[pr.req.CensusID]}

HAddEnd(p) ==
    /\ Running /\ procs[p].pc = "adding"
    /\ \E base \in AddClaimBases(procs[p], MkTrees) :
         LET a == TreeAddClaim(base, procs[p].req.ClaimData) IN
         /\ MkTrees' = IF procs[p].orphan THEN MkTrees
                       ELSE [MkTrees EXCEPT ![procs[p].req.CensusID] = a.tree]
         /\ procs' = [procs EXCEPT ![p] =
                        [pc |-> "done", req |-> procs[p].req,
                         resp |-> IF a.err # "" THEN Fail(NewResp, a.err)
                                  ELSE NewResp]]
    /\ UNCHANGED <<Signatures, reply>>

HReturn(p) ==
    /\ Running /\ procs[p].pc = "done"
    /\ procs' = [procs EXCEPT ![p] = IdleProc]
    /\ UNCHANGED <<MkTrees, Signatures, reply>>

NextConc ==
    \E p \in Procs :
       \/ NsBegin(p) \/ NsMakeTrees(p) \/ NsLenSignatures(p)
       \/ NsMakeSignatures(p) \/ NsPutTree(p) \/ NsPutSignature(p)
       \/ HBegin(p) \/ HLookup(p) \/ HServe(p)
       \/ HAddBegin(p) \/ HAddEnd(p) \/ HReturn(p)

SpecConc == Init /\ [][NextConc]_vars

----------------------------------------------------------------------------
(* Reading an outcome rp (a value of reply) of the dispatcher, reached     *)
(* directly or through HTTPhandler                                         *)

HandledIn(rp) == rp.kind = "Handler" \/ (rp.kind = "HTTP" /\ rp.out.handled)

ReqOf(rp) == IF rp.kind = "Handler" THEN rp.req ELSE rp.body.Request

IsAuthOf(rp) == IF rp.kind = "Handler" THEN rp.isAuth ELSE TRUE

RespOf(rp) == IF rp.kind = "Handler" THEN rp.resp ELSE rp.out.resp

CallsOf(rp) == IF rp.kind = "Handler" THEN rp.calls ELSE rp.out.calls

ErrOf(rp) == IF rp.kind = "Handler" THEN rp.err ELSE rp.out.err

\* no operation-specific field of the response is populated
NoResult(resp) ==
    /\ resp.Root = EmptyStr
    /\ resp.Siblings = EmptyStr
    /\ resp.Idx = 0
    /\ resp.ClaimsData = << >>
    /\ resp.ValidProof = FALSE

\* the rootHash selects the live tree or names a version the tree had
ViewResolves(t, rootHash) == Len(rootHash) <= 1 \/ rootHash \in HistoricalRoots(t)

TreeOps == {"AddClaim", "GenProof", "GetIndex", "Dump", "CheckProof"}

----------------------------------------------------------------------------
(* C1: a request whose censusId is not a key of MkTrees is answered         *)
(* ok=false, error "censusId not valid or not found", with no result field *)
(* populated and no tree operation invoked, whatever its method, isAuth,   *)
(* rootHash, claimData and proofData.                                      *)
C1_UnknownCensus ==
    (HandledIn(reply) /\ ReqOf(reply).CensusID \notin DOMAIN MkTrees)
        => /\ RespOf(reply) = Fail(NewResp, "censusId not valid or not found")
           /\ CallsOf(reply) = << >>

\* an unauthorized dump with an unknown rootHash on a census that is not
\* registered, while another census is
C1_Witness ==
    /\ reply.kind = "Handler"
    /\ reply.req.CensusID \notin DOMAIN MkTrees
    /\ DOMAIN MkTrees # {}
    /\ reply.req.Method = "dump"
    /\ ~reply.isAuth
    /\ reply.req.RootHash = BadRoot
    /\ reply.resp.Error = "censusId not valid or not found"

----------------------------------------------------------------------------
(* C2 as stated: with isAuth false on a registered census, addClaim and    *)
(* dump both answer ok=false, error "invalid authentication"; addClaim     *)
(* leaves the trees unchanged and dump returns no claimsData.              *)
C2_Original ==
    [][(HandledIn(reply') /\ ~IsAuthOf(reply')
           /\ ReqOf(reply').CensusID \in DOMAIN MkTrees
           /\ ReqOf(reply').Method \in {"addClaim", "dump"})
         => /\ RespOf(reply') = Fail(NewResp, "invalid authentication")
            /\ MkTrees' = MkTrees]_vars

(* C2 as amended: addClaim as stated; dump answers ok=false without        *)
(* claimsData, with error "invalid authentication" when its rootHash       *)
(* resolves to a view (at most one character long, or a historical root)   *)
(* and "invalid root hash" when it does not.                               *)
C2_Unauthorized ==
    [][(HandledIn(reply') /\ ~IsAuthOf(reply')
           /\ ReqOf(reply').CensusID \in DOMAIN MkTrees
           /\ ReqOf(reply').Method \in {"addClaim", "dump"})
         => LET r == ReqOf(reply') IN
            /\ MkTrees' = MkTrees
            /\ RespOf(reply') =
                 Fail(NewResp,
                      IF r.Method = "addClaim" \/ ViewResolves(MkTrees[r.CensusID], r.RootHash)
                      THEN "invalid authentication"
                      ELSE "invalid root hash")]_vars

\* an unauthorized dump of a snapshot of a tree that holds claims
C2_Witness ==
    /\ reply.kind = "Handler"
    /\ ~reply.isAuth
    /\ reply.req.Method = "dump"
    /\ reply.req.CensusID \in DOMAIN MkTrees
    /\ Len(MkTrees[reply.req.CensusID]) > 0
    /\ reply.req.RootHash = TreeGetRoot(MkTrees[reply.req.CensusID])
    /\ reply.resp.Error = "invalid authentication"

----------------------------------------------------------------------------
(* C3: once a namespace exists, its tree keeps every claim it holds and    *)
(* its authKey stays the same, whatever operation follows (creating the id *)
(* again must not replace them).                                           *)
C3_BindingPermanent ==
    [][\A id \in DOMAIN MkTrees :
         /\ id \in DOMAIN MkTrees'
         /\ IsPrefix(MkTrees[id], MkTrees'[id])
         /\ Signatures'[id] = Signatures[id]]_vars

----------------------------------------------------------------------------
(* C4: snapshot isolation.  Across every addClaim request on a registered  *)
(* census, for every root R the tree of that census had, genProof and dump *)
(* at rootHash R answer after the request exactly as before it, and the    *)
(* dump at R holds exactly the claims R commits to.                        *)
SnapshotReads(trees, c) ==
    [Method : {"genProof", "dump"}, CensusID : {c}, ClaimData : Claims,
     RootHash : HistoricalRoots(trees[c]), ProofData : {EmptyStr}]

C4_SnapshotIsolation ==
    [][(HandledIn(reply') /\ ReqOf(reply').Method = "addClaim"
           /\ ReqOf(reply').CensusID \in DOMAIN MkTrees)
         => \A q \in SnapshotReads(MkTrees, ReqOf(reply').CensusID) :
              LET before == Handler(MkTrees, q, TRUE, FALSE).resp
                  after  == Handler(MkTrees', q, TRUE, FALSE).resp
              IN /\ after = before
                 /\ ToSet(after.ClaimsData)
                      = IF q.Method = "dump" THEN q.RootHash[2] ELSE {}]_vars

\* a dump at the root the tree had before its latest claim was added
\* returns the claims of that version only
C4_Witness ==
    /\ HandledIn(reply)
    /\ ReqOf(reply).Method = "dump"
    /\ ReqOf(reply).CensusID \in DOMAIN MkTrees
    /\ LET t == MkTrees[ReqOf(reply).CensusID] IN
       /\ Len(t) = 2
       /\ ReqOf(reply).RootHash = TreeGetRoot(SubSeq(t, 1, 1))
       /\ RespOf(reply).Ok
       /\ RespOf(reply).ClaimsData = SubSeq(t, 1, 1)

----------------------------------------------------------------------------
(* C5: every response is ok=true with an empty error or ok=false with a    *)
(* non-empty error; a response with an error has no result field           *)
(* populated; a failed tree operation never yields ok=true.                *)
C5_OneOutcome ==
    HandledIn(reply)
        => LET resp == RespOf(reply) IN
           /\ (resp.Ok /\ resp.Error = "") \/ (~resp.Ok /\ resp.Error # "")
           /\ resp.Error # "" => NoResult(resp)
           /\ ErrOf(reply) # "" => ~resp.Ok

----------------------------------------------------------------------------
(* C6: for a non-empty authKey, checkAuth returns false for a timestamp    *)
(* outside now-W <= timestamp <= now+W, and the verifier's boolean for     *)
(* every timestamp inside it, the two boundary values included.            *)
InWindow(now, timestamp) ==
    /\ timestamp >= now - authTimeWindow
    /\ (now > Int32Max - authTimeWindow \/ timestamp <= now + authTimeWindow)

C6_ClosedWindow ==
    (reply.kind = "checkAuth" /\ reply.pubKey # "")
        => reply.result = (InWindow(reply.now, reply.timestamp) /\ reply.verify.v)

----------------------------------------------------------------------------
(* C7: genProof, getIdx, dump and checkProof on a registered census with a *)
(* rootHash of length > 0 are served from a snapshot at that root, and are *)
(* answered "invalid root hash" when the tree never had that root.         *)
C7_SnapshotWhenSupplied ==
    (HandledIn(reply) /\ ReqOf(reply).CensusID \in DOMAIN MkTrees
        /\ ReqOf(reply).Method \in ViewMethods /\ Len(ReqOf(reply).RootHash) > 0)
        => /\ CallsOf(reply) # << >>
           /\ CallsOf(reply)[1] = "Snapshot"
           /\ ReqOf(reply).RootHash \notin HistoricalRoots(MkTrees[ReqOf(reply).CensusID])
                => RespOf(reply) = Fail(NewResp, "invalid root hash")

----------------------------------------------------------------------------
(* C8: when the tree operation of addClaim, genProof, getIdx, dump or      *)
(* checkProof returns an error, the response is ok=false and carries the   *)
(* tree's error text.                                                      *)
C8_TreeErrorPropagates ==
    (HandledIn(reply) /\ CallsOf(reply) # << >>
        /\ CallsOf(reply)[Len(CallsOf(reply))] \in TreeOps /\ ErrOf(reply) # "")
        => /\ ~RespOf(reply).Ok
           /\ RespOf(reply).Error = ErrOf(reply)

----------------------------------------------------------------------------
(* C9: a dump or addClaim arriving through HTTPhandler for a namespace     *)
(* with a non-empty authKey, whose signature does not verify against that  *)
(* key, is answered ok=false "invalid authentication" and changes no tree. *)
Authorized(signed, pubKey) ==
    \E out \in VerifyOutcomes(Message, signed, pubKey) : out.v /\ out.err = ""

C9_HttpUnauthorized ==
    [][(reply'.kind = "HTTP" /\ reply'.out.handled
           /\ reply'.body.Request.Method \in {"dump", "addClaim"}
           /\ reply'.body.Request.CensusID \in DOMAIN MkTrees
           /\ Signatures[reply'.body.Request.CensusID] # ""
           /\ ~Authorized(reply'.body.Signature, Signatures[reply'.body.Request.CensusID]))
         => /\ ~reply'.out.resp.Ok
            /\ reply'.out.resp.Error = "invalid authentication"
            /\ MkTrees' = MkTrees]_vars

----------------------------------------------------------------------------
(* C10: proof round trip.  A checkProof whose proofData is what genProof   *)
(* returns for a claim d0 on the same census and rootHash answers ok=true, *)
(* with validProof=true when its claim is d0 and validProof=false when it  *)
(* is another claim.                                                       *)
C10_ProofRoundTrip ==
    (HandledIn(reply) /\ ReqOf(reply).Method = "checkProof")
        => \A d0 \in Claims :
             LET g == Handler(MkTrees,
                              [ReqOf(reply) EXCEPT !.Method = "genProof", !.ClaimData = d0],
                              IsAuthOf(reply), FALSE).resp
             IN (g.Ok /\ g.Siblings = ReqOf(reply).ProofData)
                  => /\ RespOf(reply).Ok
                     /\ RespOf(reply).ValidProof = (ReqOf(reply).ClaimData = d0)

\* a proof generated on a snapshot older than the live tree checks on it
C10_Witness ==
    /\ HandledIn(reply)
    /\ ReqOf(reply).Method = "checkProof"
    /\ ReqOf(reply).CensusID \in DOMAIN MkTrees
    /\ LET t == MkTrees[ReqOf(reply).CensusID] IN
       /\ Len(t) = 2
       /\ ReqOf(reply).RootHash = TreeGetRoot(SubSeq(t, 1, 1))
       /\ ReqOf(reply).ProofData = TreeGenProof(SubSeq(t, 1, 1), t[1]).siblings
       /\ ReqOf(reply).ClaimData = t[1]
       /\ RespOf(reply).ValidProof

----------------------------------------------------------------------------
(* C11: across every request of the dispatcher, a successful addClaim on a *)
(* census gives its tree a root it never had before and keeps the roots it *)
(* had, so the root after N >= 1 successful addClaim requests differs from *)
(* the root before them; every other request leaves the root of the census *)
(* as it was; and getRoot answers with that root and changes no tree, so   *)
(* two getRoot requests with no successful addClaim between them agree.    *)
Added(rp, c) ==
    ReqOf(rp).Method = "addClaim" /\ ReqOf(rp).CensusID = c /\ RespOf(rp).Ok

C11_RootChanges ==
    [][HandledIn(reply')
         => \A c \in DOMAIN MkTrees :
              /\ Added(reply', c)
                   => /\ TreeGetRoot(MkTrees'[c]) \notin HistoricalRoots(MkTrees[c])
                      /\ HistoricalRoots(MkTrees[c]) \subseteq HistoricalRoots(MkTrees'[c])
              /\ ~Added(reply', c)
                   => TreeGetRoot(MkTrees'[c]) = TreeGetRoot(MkTrees[c])
              /\ (ReqOf(reply').Method = "getRoot" /\ ReqOf(reply').CensusID = c)
                   => /\ RespOf(reply').Ok
                      /\ RespOf(reply').Root = TreeGetRoot(MkTrees[c])
                      /\ MkTrees' = MkTrees]_vars

\* getRoot after two successful insertions returns a root that differs from
\* the roots the tree had before each of them
C11_Witness ==
    /\ HandledIn(reply)
    /\ ReqOf(reply).Method = "getRoot"
    /\ ReqOf(reply).CensusID \in DOMAIN MkTrees
    /\ LET t == MkTrees[ReqOf(reply).CensusID] IN
       /\ Len(t) = 2
       /\ RespOf(reply).Root = TreeGetRoot(t)
       /\ RespOf(reply).Root # TreeGetRoot(SubSeq(t, 1, 1))
       /\ RespOf(reply).Root # TreeGetRoot(<< >>)

----------------------------------------------------------------------------
(* C12 as stated: a request on a registered census whose method is not one *)
(* of the six known methods is answered ok=true with an empty error and no *)
(* result field, whatever its other fields and the authorization flag.     *)
C12_Original ==
    (HandledIn(reply) /\ ReqOf(reply).CensusID \in DOMAIN MkTrees
        /\ ReqOf(reply).Method \notin KnownMethods)
        => RespOf(reply) = NewResp

(* C12 as amended: such a request is answered ok=true with an empty error  *)
(* and no result field when its rootHash resolves to a view (at most one   *)
(* character long, or a historical root), and ok=false "invalid root hash" *)
(* with no result field when it does not.                                  *)
C12_UnknownMethod ==
    (HandledIn(reply) /\ ReqOf(reply).CensusID \in DOMAIN MkTrees
        /\ ReqOf(reply).Method \notin KnownMethods)
        => RespOf(reply) =
             IF ViewResolves(MkTrees[ReqOf(reply).CensusID], ReqOf(reply).RootHash)
             THEN NewResp
             ELSE Fail(NewResp, "invalid root hash")

\* an unknown method, unauthorized, on a snapshot of a tree that holds claims
C12_Witness ==
    /\ reply.kind = "Handler"
    /\ reply.req.Method = "foo"
    /\ ~reply.isAuth
    /\ reply.req.CensusID \in DOMAIN MkTrees
    /\ Len(MkTrees[reply.req.CensusID]) > 0
    /\ reply.req.RootHash = TreeGetRoot(MkTrees[reply.req.CensusID])
    /\ reply.req.ClaimData # ""
    /\ reply.resp = NewResp

----------------------------------------------------------------------------
(* C13: a checkProof with empty proofData, and a genProof or getIdx with   *)
(* empty claimData, are answered ok=false with a non-empty error and no    *)
(* result field.                                                           *)
C13_MissingField ==
    (HandledIn(reply)
        /\ \/ ReqOf(reply).Method = "checkProof" /\ ReqOf(reply).ProofData = EmptyStr
           \/ ReqOf(reply).Method \in {"genProof", "getIdx"} /\ ReqOf(reply).ClaimData = "")
        => /\ ~RespOf(reply).Ok
           /\ RespOf(reply).Error # ""
           /\ NoResult(RespOf(reply))

----------------------------------------------------------------------------
(* C14: with an empty authKey checkAuth returns true for every timestamp,  *)
(* signature and message, and does not call the verifier.                  *)
C14_EmptyKey ==
    (reply.kind = "checkAuth" /\ reply.pubKey = "")
        => reply.result /\ ~reply.verified

\* an empty key with a timestamp outside the window, a signature that does
\* not decode and a message that was not signed
C14_Witness ==
    /\ reply.kind = "checkAuth"
    /\ reply.pubKey = ""
    /\ ~InWindow(reply.now, reply.timestamp)
    /\ reply.signed = <<"zz">>
    /\ reply.message = "n"
    /\ reply.verify.err # ""
    /\ reply.result

----------------------------------------------------------------------------
(* C15: whenever the verifier that checkAuth calls returns an error,       *)
(* checkAuth returns false, whatever boolean came with the error.          *)
C15_VerifyError ==
    (reply.kind = "checkAuth" /\ reply.verified /\ reply.verify.err # "")
        => ~reply.result

----------------------------------------------------------------------------
(* C18: frame.  A request, whether it reaches the dispatcher directly or   *)
(* through HTTPhandler, leaves the keys of the registry and the authKeys   *)
(* as they were; it changes the tree of a census only when it is an        *)
(* addClaim on that census answered ok=true, and then by appending its     *)
(* claim; every other request, and every request answered ok=false,        *)
(* leaves every tree unchanged.                                            *)
C18_Frame ==
    [][reply'.kind \in {"Handler", "HTTP"}
         => /\ DOMAIN MkTrees' = DOMAIN MkTrees
            /\ Signatures' = Signatures
            /\ \A c \in DOMAIN MkTrees :
                 MkTrees'[c] =
                    IF HandledIn(reply') /\ Added(reply', c)
                    THEN Append(MkTrees[c], ReqOf(reply').ClaimData)
                    ELSE MkTrees[c]]_vars

\* a successful addClaim on one census while the other census holds a claim
C18_Witness ==
    /\ HandledIn(reply)
    /\ ReqOf(reply).Method = "addClaim"
    /\ RespOf(reply).Ok
    /\ DOMAIN MkTrees = CensusIds
    /\ \A c \in CensusIds : Len(MkTrees[c]) = 1
    /\ MkTrees["c1"] # MkTrees["c2"]

----------------------------------------------------------------------------
(* C19: getRoot on a registered census is answered ok=true with the root   *)
(* of the live tree, whatever the authorization flag and whatever the      *)
(* rootHash of the request: the only tree operation it performs is         *)
(* GetRoot, and no snapshot is taken.                                      *)
C19_GetRootLive ==
    (HandledIn(reply) /\ ReqOf(reply).CensusID \in DOMAIN MkTrees
        /\ ReqOf(reply).Method = "getRoot")
        => /\ RespOf(reply) =
                [NewResp EXCEPT !.Root = TreeGetRoot(MkTrees[ReqOf(reply).CensusID])]
           /\ CallsOf(reply) = <<"GetRoot">>

\* an unauthorized getRoot whose rootHash is an older root of a grown tree
C19_Witness ==
    /\ HandledIn(reply)
    /\ ReqOf(reply).Method = "getRoot"
    /\ ReqOf(reply).CensusID \in DOMAIN MkTrees
    /\ ~IsAuthOf(reply)
    /\ Len(ReqOf(reply).RootHash) > 1
    /\ ReqOf(reply).RootHash \in HistoricalRoots(MkTrees[ReqOf(reply).CensusID])
    /\ ReqOf(reply).RootHash # TreeGetRoot(MkTrees[ReqOf(reply).CensusID])
    /\ RespOf(reply).Root = TreeGetRoot(MkTrees[ReqOf(reply).CensusID])

(* C20: for a dump with the authorization flag false, and for a checkProof *)
(* with empty proofData, on a registered census: when the request carries  *)
(* a rootHash that is not a historical root of the tree the answer is      *)
(* "invalid root hash"; "invalid authentication" and "proofData not        *)
(* provided" are answered only when no rootHash was carried or the one     *)
(* carried is a historical root.                                           *)
C20_ValidationOrder ==
    (/\ HandledIn(reply)
     /\ ReqOf(reply).CensusID \in DOMAIN MkTrees
     /\ \/ ReqOf(reply).Method = "dump" /\ ~IsAuthOf(reply)
        \/ ReqOf(reply).Method = "checkProof" /\ ReqOf(reply).ProofData = EmptyStr)
        => LET carried == ReqOf(reply).RootHash # EmptyStr
               known   == ReqOf(reply).RootHash
                            \in HistoricalRoots(MkTrees[ReqOf(reply).CensusID])
           IN  RespOf(reply).Error =
                 IF carried /\ ~known THEN "invalid root hash"
                 ELSE IF ReqOf(reply).Method = "dump"
                      THEN "invalid authentication"
                      ELSE "proofData not provided"

----------------------------------------------------------------------------
(* C16: with several handlers running, at most one AddClaim call is in     *)
(* progress on the tree of any one namespace at any time.                  *)
C16_AddClaimSerialized ==
    \A p, q \in Procs :
       (/\ procs[p].pc = "adding"
        /\ procs[q].pc = "adding"
        /\ procs[p].req.CensusID = procs[q].req.CensusID) => p = q

(* C17: no write of AddNamespace to MkTrees happens while a lookup         *)
(* iterates over MkTrees, and while a lookup is in progress every          *)
(* namespace that has a tree has its key.                                  *)
C17_RegistryExclusive ==
    \A p \in Procs :
       procs[p].pc = "lookup"
          => /\ ~procs[p].raced
             /\ DOMAIN MkTrees \subseteq DOMAIN Signatures

====
